---------------------------- MODULE Spec2Model ----------------------------
(***************************************************************************)
(* A model of radix_trie::Radix_Trie (src/src/radix_trie.hpp).             *)
(*                                                                         *)
(* A Radix_Node is a record [val, is_word, children]; children is a        *)
(* function from the keys of the node's unordered_map to the child nodes,  *)
(* so a trie is one nested value and two tries are equal exactly when they *)
(* have the same nodes, labels, child maps and terminal flags.  A          *)
(* std::string is a sequence of one-character strings.  Indices into       *)
(* strings are 0-based as in the source; Ch converts to TLA+'s 1-based     *)
(* sequences.                                                              *)
(***************************************************************************)
EXTENDS Naturals, Sequences, FiniteSets, Bags, TLC

\* The characters words are made of.
Alphabet == {"a", "b"}

\* The longest word or query the model passes to an operation.
MaxLen == 2

\* The most words the driver keeps inserted at once.
MaxWords == 2

\* Every word (and query) of at most MaxLen characters, the empty word included.
Words == UNION {[1..n -> Alphabet] : n \in 0..MaxLen}

\* What a read past the end of a std::string may yield: any character, or
\* a byte that is no character of the alphabet.
NoChar == "?"

GarbageChars == Alphabet \cup {NoChar}

VARIABLES
    root,    \* Radix_Trie::_root, the whole node graph
    words,   \* history: the words inserted and not removed by a later remove of that word
    pure,    \* history: TRUE while no remove has been called
    last     \* the last operation called, its arguments and what it returned

vars == <<root, words, pure, last>>

----------------------------------------------------------------------------
\* std::unordered_map<char, Radix_Node *>

EmptyMap == << >>

\* m[k] = v
Put(m, k, v) == [x \in (DOMAIN m) \cup {k} |-> IF x = k THEN v ELSE m[x]]

\* m.erase(k)
Erase(m, k) ==
    IF (DOMAIN m) \ {k} = {} THEN EmptyMap
    ELSE [x \in (DOMAIN m) \ {k} |-> m[x]]

----------------------------------------------------------------------------
\* std::string

\* s[i], i 0-based and i < s.size()
Ch(s, i) == s[i + 1]

\* s.substr(pos, count) with pos <= s.size(): count is clipped to the end
Substr(s, pos, count) ==
    LET last_ == IF pos + count > Len(s) THEN Len(s) ELSE pos + count
    IN  SubSeq(s, pos + 1, last_)

\* s.substr(pos)
SubstrFrom(s, pos) == SubSeq(s, pos + 1, Len(s))

IsPrefix(p, s) == Len(p) <= Len(s) /\ SubSeq(s, 1, Len(p)) = p

----------------------------------------------------------------------------
\* Radix_Node

\* Radix_Node(std::string val): a terminal node
NewWordNode(val) == [val |-> val, is_word |-> TRUE, children |-> EmptyMap]

\* Radix_Node(std::string val, bool is_word)
NewNode(val, is_word) == [val |-> val, is_word |-> is_word, children |-> EmptyMap]

\* Radix_Node() = default leaves is_word uninitialized: new Radix_Node
\* default-initializes, so the flag of the root holds either value.
DefaultNodes == {[val |-> << >>, is_word |-> b, children |-> EmptyMap] : b \in BOOLEAN}

----------------------------------------------------------------------------
\* Radix_Trie::_rebind, as the new value of prev: common takes curr as child
\* under the key curr->val[curr_idx], prev takes common under curr->val[0],
\* and curr keeps the rest of its label.
_rebind_KeyAtSplit(common, prev, curr, curr_idx) ==
    LET moved == [curr EXCEPT !.val = Substr(curr.val, curr_idx, Len(curr.val))]
        bound == [common EXCEPT
                    !.children = Put(common.children, Ch(curr.val, curr_idx), moved)]
    IN  [prev EXCEPT !.children =
           Put(Erase(prev.children, Ch(curr.val, 0)), Ch(curr.val, curr_idx), bound)]

_rebind_SkipOne(common, prev, curr, curr_idx) ==
    LET moved == [curr EXCEPT !.val = Substr(curr.val, curr_idx + 1, Len(curr.val))]
        bound == [common EXCEPT
                    !.children = Put(common.children, Ch(curr.val, curr_idx), moved)]
    IN  [prev EXCEPT !.children = Put(prev.children, Ch(curr.val, 0), bound)]

_rebind(common, prev, curr, curr_idx) ==
    LET moved == [curr EXCEPT !.val = Substr(curr.val, curr_idx, Len(curr.val))]
        bound == [common EXCEPT
                    !.children = Put(common.children, Ch(curr.val, curr_idx), moved)]
    IN  [prev EXCEPT !.children = Put(prev.children, Ch(curr.val, 0), bound)]

\* The inner loop of insert: how far curr_idx gets before a mismatch, the end
\* of the label or the end of the word.
InsertScan_Once(val, word, w_idx, curr_idx) ==
    IF curr_idx < Len(val) /\ w_idx < Len(word)
       /\ Ch(word, w_idx) = Ch(val, curr_idx)
    THEN curr_idx + 1
    ELSE curr_idx

RECURSIVE InsertScan(_, _, _, _)
InsertScan(val, word, w_idx, curr_idx) ==
    IF curr_idx < Len(val) /\ w_idx < Len(word)
       /\ Ch(word, w_idx) = Ch(val, curr_idx)
    THEN InsertScan(val, word, w_idx + 1, curr_idx + 1)
    ELSE curr_idx

\* insert once the outer loop is left with word used up at the end of a
\* label: curr becomes a word
InsertAtEnd_Skip(curr) == curr

InsertAtEnd(curr) == [curr EXCEPT !.is_word = TRUE]

\* Radix_Trie::insert from the node curr on, with w_idx characters of word
\* consumed: one iteration of the outer loop per call; the value is the new curr.
RECURSIVE InsertFrom(_, _, _)
InsertFrom(curr, word, w_idx) ==
    IF w_idx < Len(word)
    THEN LET c == Ch(word, w_idx) IN
         IF c \notin DOMAIN curr.children
         THEN [curr EXCEPT !.children =
                  Put(curr.children, c, NewWordNode(Substr(word, w_idx, Len(word))))]
         ELSE LET next     == curr.children[c]
                  curr_idx == InsertScan(next.val, word, w_idx, 0)
                  w_end    == w_idx + curr_idx
              IN  IF curr_idx < Len(next.val) /\ w_end < Len(word)
                  THEN \* the characters differ: split, with a leaf for the rest of word
                       LET common == [NewNode(Substr(next.val, 0, curr_idx), FALSE)
                                        EXCEPT !.children =
                                          Put(EmptyMap, Ch(word, w_end),
                                              NewWordNode(Substr(word, w_end, Len(word))))]
                       IN  _rebind(common, curr, next, curr_idx)
                  ELSE IF curr_idx < Len(next.val) /\ w_end = Len(word)
                  THEN \* word ends inside the label: the common node is the word
                       _rebind(NewWordNode(Substr(next.val, 0, curr_idx)), curr, next, curr_idx)
                  ELSE [curr EXCEPT !.children =
                          Put(curr.children, c, InsertFrom(next, word, w_end))]
    ELSE InsertAtEnd(curr)

\* Radix_Trie::insert
insert(r, word) == InsertFrom(r, word, 0)

\* The values of w_idx at the start of each iteration of the outer loop of
\* insert, from the node curr on.
RECURSIVE InsertWalk(_, _, _)
InsertWalk(curr, word, w_idx) ==
    IF w_idx < Len(word)
    THEN LET c == Ch(word, w_idx) IN
         IF c \notin DOMAIN curr.children
         THEN <<w_idx>>
         ELSE LET next     == curr.children[c]
                  curr_idx == InsertScan(next.val, word, w_idx, 0)
              IN  IF curr_idx < Len(next.val)
                  THEN <<w_idx>>
                  ELSE <<w_idx>> \o InsertWalk(next, word, w_idx + curr_idx)
    ELSE << >>

----------------------------------------------------------------------------
\* word[word_idx] in _remove.  word_idx == word.length() never gets here; a
\* larger word_idx reads past the end of the string, which yields whatever
\* the garbage g holds at that index.
RemoveRead(word, word_idx, g) ==
    IF word_idx < Len(word) THEN Ch(word, word_idx) ELSE g[word_idx]

\* _remove at the node where word is used up: a node that is no word fails
\* the call, a word loses its flag.  [ret, node]
RemoveAtEnd_KeepFlag(curr) ==
    IF ~curr.is_word
    THEN [ret |-> FALSE, node |-> curr]
    ELSE [ret |-> TRUE, node |-> curr]

RemoveAtEnd_ClearThenFail(curr) ==
    [ret |-> FALSE, node |-> [curr EXCEPT !.is_word = FALSE]]

RemoveAtEnd(curr) ==
    IF ~curr.is_word
    THEN [ret |-> FALSE, node |-> curr]
    ELSE [ret |-> TRUE, node |-> [curr EXCEPT !.is_word = FALSE]]

\* _remove on the way back, once the call on the child under key c has
\* returned true and left child: curr after the child is deleted, merged with
\* its only child, or kept.  (child->children = std::move(...) leaves the
\* grandchild's map empty, so deleting the grandchild frees that node alone.)
RemoveUnwind_NoMerge(curr, c, child) ==
    IF ~child.is_word /\ DOMAIN child.children = {}
    THEN [curr EXCEPT !.children = Erase(curr.children, c)]
    ELSE [curr EXCEPT !.children = Put(curr.children, c, child)]

RemoveUnwind_NoConcat(curr, c, child) ==
    IF ~child.is_word /\ DOMAIN child.children = {}
    THEN [curr EXCEPT !.children = Erase(curr.children, c)]
    ELSE IF ~child.is_word /\ Cardinality(DOMAIN child.children) = 1
    THEN LET grandchild == child.children[CHOOSE k \in DOMAIN child.children : TRUE]
             merged     == [val      |-> child.val,
                            is_word  |-> grandchild.is_word,
                            children |-> grandchild.children]
         IN  [curr EXCEPT !.children = Put(curr.children, c, merged)]
    ELSE [curr EXCEPT !.children = Put(curr.children, c, child)]

RemoveUnwind_NoPrune(curr, c, child) ==
    IF ~child.is_word /\ Cardinality(DOMAIN child.children) = 1
    THEN LET grandchild == child.children[CHOOSE k \in DOMAIN child.children : TRUE]
             merged     == [val      |-> child.val \o grandchild.val,
                            is_word  |-> grandchild.is_word,
                            children |-> grandchild.children]
         IN  [curr EXCEPT !.children = Put(curr.children, c, merged)]
    ELSE [curr EXCEPT !.children = Put(curr.children, c, child)]

RemoveUnwind(curr, c, child) ==
    IF ~child.is_word /\ DOMAIN child.children = {}
    THEN [curr EXCEPT !.children = Erase(curr.children, c)]
    ELSE IF ~child.is_word /\ Cardinality(DOMAIN child.children) = 1
    THEN LET grandchild == child.children[CHOOSE k \in DOMAIN child.children : TRUE]
             merged     == [val      |-> child.val \o grandchild.val,
                            is_word  |-> grandchild.is_word,
                            children |-> grandchild.children]
         IN  [curr EXCEPT !.children = Put(curr.children, c, merged)]
    ELSE [curr EXCEPT !.children = Put(curr.children, c, child)]

\* The word_idx _remove passes down to the child
RemoveNextIdx_Stuck(word_idx, child) == word_idx

RemoveNextIdx(word_idx, child) == word_idx + Len(child.val)

\* Radix_Trie::_remove(curr, word, word_idx).  The value is
\* [ret, node, oob]: the bool returned, curr as the call leaves it, and
\* whether the call or one below it read word past its end.  The nodes are
\* changed in place, so what a failed call below did to the child stays.
\* (curr is never null: every pointer in a child map is a live node.)
RECURSIVE _remove(_, _, _, _)
_remove(curr, word, word_idx, g) ==
    IF word_idx = Len(word)
    THEN LET end == RemoveAtEnd(curr)
         IN  [ret |-> end.ret, node |-> end.node, oob |-> FALSE]
    ELSE LET c    == RemoveRead(word, word_idx, g)
             over == word_idx > Len(word)
         IN  IF c \notin DOMAIN curr.children
             THEN [ret |-> FALSE, node |-> curr, oob |-> over]
             ELSE LET sub == _remove(curr.children[c], word,
                                     RemoveNextIdx(word_idx, curr.children[c]), g)
                  IN  IF ~sub.ret
                      THEN [ret |-> FALSE, oob |-> over \/ sub.oob,
                            node |-> [curr EXCEPT !.children =
                                        Put(curr.children, c, sub.node)]]
                      ELSE [ret |-> TRUE, node |-> RemoveUnwind(curr, c, sub.node),
                            oob |-> over \/ sub.oob]

\* Radix_Trie::remove
remove(r, word, g) == _remove(r, word, 0, g)

\* The values of word_idx in the successive calls of _remove, from the call
\* on curr on.
RECURSIVE RemoveWalk(_, _, _, _)
RemoveWalk(curr, word, word_idx, g) ==
    IF word_idx = Len(word)
    THEN <<word_idx>>
    ELSE LET c == RemoveRead(word, word_idx, g) IN
         IF c \notin DOMAIN curr.children
         THEN <<word_idx>>
         ELSE <<word_idx>>
                \o RemoveWalk(curr.children[c], word,
                              RemoveNextIdx(word_idx, curr.children[c]), g)

----------------------------------------------------------------------------
\* The inner loop of find: match_len when it stops.
RECURSIVE FindScan(_, _, _, _)
FindScan(curr_val, val, val_idx, match_len) ==
    IF match_len < Len(curr_val) /\ val_idx + match_len < Len(val)
       /\ Ch(curr_val, match_len) = Ch(val, val_idx + match_len)
    THEN FindScan(curr_val, val, val_idx, match_len + 1)
    ELSE match_len

\* std::nullopt
Absent == [present |-> FALSE]

\* The optional holding a node pointer
Present(node) == [present |-> TRUE, node |-> node]

\* find when the loop stopped inside the label of next: the node itself for
\* a partial search whose val is used up, nothing otherwise
FindInLabel_Exact(next, val, val_idx, match_len, allow_partial) == Absent

FindInLabel_Always(next, val, val_idx, match_len, allow_partial) ==
    IF val_idx + match_len = Len(val)
    THEN Present(next)
    ELSE Absent

FindInLabel(next, val, val_idx, match_len, allow_partial) ==
    IF val_idx + match_len = Len(val) /\ allow_partial
    THEN Present(next)
    ELSE Absent

\* Radix_Trie::find from the node curr on, one iteration of the loop per call.
RECURSIVE FindFrom(_, _, _, _)
FindFrom(curr, val, val_idx, allow_partial) ==
    IF val_idx < Len(val)
    THEN LET c == Ch(val, val_idx) IN
         IF c \notin DOMAIN curr.children
         THEN Absent
         ELSE LET next      == curr.children[c]
                  match_len == FindScan(next.val, val, val_idx, 0)
              IN  IF match_len < Len(next.val)
                  THEN FindInLabel(next, val, val_idx, match_len, allow_partial)
                  ELSE FindFrom(next, val, val_idx + match_len, allow_partial)
    ELSE Present(curr)

\* Radix_Trie::find
find(r, val, allow_partial) == FindFrom(r, val, 0, allow_partial)

\* A null Radix_Node *, which operator[] puts under a key the map lacks
NullPtr == "nullptr"

\* find at a node with no child for c: contains(c) is asked, which leaves
\* the map alone, and the call returns; curr after it
FindMiss_Subscript(curr, c) ==
    [curr EXCEPT !.children = Put(curr.children, c, NullPtr)]

FindMiss(curr, c) == curr

\* The node curr as find leaves it: children[c] is only taken for a key the
\* map has, and nothing else is written.
RECURSIVE FindTrie(_, _, _)
FindTrie(curr, val, val_idx) ==
    IF val_idx < Len(val)
    THEN LET c == Ch(val, val_idx) IN
         IF c \notin DOMAIN curr.children
         THEN FindMiss(curr, c)
         ELSE LET next      == curr.children[c]
                  match_len == FindScan(next.val, val, val_idx, 0)
              IN  IF match_len < Len(next.val)
                  THEN curr
                  ELSE [curr EXCEPT !.children =
                          Put(curr.children, c, FindTrie(next, val, val_idx + match_len))]
    ELSE curr

\* The values of val_idx at the start of each iteration of the loop of find.
RECURSIVE FindWalk(_, _, _)
FindWalk(curr, val, val_idx) ==
    IF val_idx < Len(val)
    THEN LET c == Ch(val, val_idx) IN
         IF c \notin DOMAIN curr.children
         THEN <<val_idx>>
         ELSE LET next      == curr.children[c]
                  match_len == FindScan(next.val, val, val_idx, 0)
              IN  IF match_len < Len(next.val)
                  THEN <<val_idx>>
                  ELSE <<val_idx>> \o FindWalk(next, val, val_idx + match_len)
    ELSE << >>

----------------------------------------------------------------------------
\* Output is a bag of strings: what was written or pushed, and how often.
\* The order an unordered_map is iterated in is left out.

RECURSIVE _print_list(_, _), PrintListChildren(_, _, _)

\* The loop over curr->children in _print_list, for the keys still to visit
PrintListChildren(curr, keys, base) ==
    IF keys = {} THEN EmptyBag
    ELSE LET k == CHOOSE x \in keys : TRUE
         IN  _print_list(curr.children[k], base \o curr.children[k].val)
               (+) PrintListChildren(curr, keys \ {k}, base)

\* Radix_Trie::_print_list: the lines written
_print_list(curr, base) ==
    (IF curr.is_word THEN SetToBag({base}) ELSE EmptyBag)
      (+) PrintListChildren(curr, DOMAIN curr.children, base)

RECURSIVE _print_md(_, _), PrintMdChildren(_, _, _)

\* The loop over curr->children in _print_md
PrintMdChildren(curr, keys, base) ==
    IF keys = {} THEN EmptyBag
    ELSE LET k == CHOOSE x \in keys : TRUE
         IN  _print_md(curr.children[k], base + 1)
               (+) PrintMdChildren(curr, keys \ {k}, base)

\* Radix_Trie::_print_md: the lines written, each the number of '#' of its
\* base, the label and whether the word mark follows
_print_md(curr, base) ==
    SetToBag({[depth |-> base, val |-> curr.val, mark |-> curr.is_word]})
      (+) PrintMdChildren(curr, DOMAIN curr.children, base)

\* Radix_Trie::print: [ret, out, what]; ret is "invalid_argument" when the
\* call throws, and what is the format the message names
print_TreeAsMd(r, format) ==
    IF format = "md" \/ format = "tree"
    THEN [ret |-> "ok", out |-> _print_md(r, 1), what |-> ""]
    ELSE IF format = "list"
    THEN [ret |-> "ok", out |-> _print_list(r, << >>), what |-> ""]
    ELSE [ret |-> "invalid_argument", out |-> EmptyBag, what |-> format]

print(r, format) ==
    IF format = "md"
    THEN [ret |-> "ok", out |-> _print_md(r, 1), what |-> ""]
    ELSE IF format = "list"
    THEN [ret |-> "ok", out |-> _print_list(r, << >>), what |-> ""]
    ELSE [ret |-> "invalid_argument", out |-> EmptyBag, what |-> format]

----------------------------------------------------------------------------
\* Whether _complete pushes base for curr
CompleteEmits_AnyBase(curr, base) == curr.is_word

CompleteEmits(curr, base) == curr.is_word /\ base # << >>

RECURSIVE _complete(_, _, _), CompleteChildren(_, _, _)

\* The loop over curr->children in _complete
CompleteChildren(curr, keys, base) ==
    IF keys = {} THEN EmptyBag
    ELSE LET k == CHOOSE x \in keys : TRUE
         IN  _complete(curr.children[k], EmptyBag, base \o curr.children[k].val)
               (+) CompleteChildren(curr, keys \ {k}, base)

\* Radix_Trie::_complete: out_vec after the call
_complete(curr, out_vec, base) ==
    out_vec
      (+) (IF CompleteEmits(curr, base) THEN SetToBag({base}) ELSE EmptyBag)
      (+) CompleteChildren(curr, DOMAIN curr.children, base)

\* The inner loop of complete: match_len when it stops (pref_idx moves with it).
RECURSIVE CompleteScan(_, _, _, _)
CompleteScan(curr_val, pref, pref_idx, match_len) ==
    IF match_len < Len(curr_val) /\ pref_idx < Len(pref)
       /\ Ch(curr_val, match_len) = Ch(pref, pref_idx)
    THEN CompleteScan(curr_val, pref, pref_idx + 1, match_len + 1)
    ELSE match_len

\* Radix_Trie::complete from the node curr on, one iteration of the loop per
\* call: out_vec after the call
RECURSIVE CompleteFrom(_, _, _, _)
CompleteFrom(curr, pref, pref_idx, out_vec) ==
    IF pref_idx < Len(pref)
    THEN LET c == Ch(pref, pref_idx) IN
         IF c \notin DOMAIN curr.children
         THEN out_vec
         ELSE LET next      == curr.children[c]
                  match_len == CompleteScan(next.val, pref, pref_idx, 0)
                  pref_end  == pref_idx + match_len
              IN  IF match_len < Len(next.val)
                  THEN IF pref_end = Len(pref)
                       THEN _complete(next, out_vec, SubstrFrom(next.val, match_len))
                       ELSE out_vec
                  ELSE CompleteFrom(next, pref, pref_end, out_vec)
    ELSE _complete(curr, out_vec, << >>)

\* Radix_Trie::complete
complete(r, pref, out_vec) == CompleteFrom(r, pref, 0, out_vec)

\* complete at a node with no child for c: as in find, contains(c) is asked
\* and the call returns; curr after it
CompleteMiss(curr, c) == curr

\* The node curr as complete leaves it (_complete takes a pointer to const).
RECURSIVE CompleteTrie(_, _, _)
CompleteTrie(curr, pref, pref_idx) ==
    IF pref_idx < Len(pref)
    THEN LET c == Ch(pref, pref_idx) IN
         IF c \notin DOMAIN curr.children
         THEN CompleteMiss(curr, c)
         ELSE LET next      == curr.children[c]
                  match_len == CompleteScan(next.val, pref, pref_idx, 0)
              IN  IF match_len < Len(next.val)
                  THEN curr
                  ELSE [curr EXCEPT !.children =
                          Put(curr.children, c,
                              CompleteTrie(next, pref, pref_idx + match_len))]
    ELSE curr

\* The values of pref_idx at the start of each iteration of the loop of
\* complete.
RECURSIVE CompleteWalk(_, _, _)
CompleteWalk(curr, pref, pref_idx) ==
    IF pref_idx < Len(pref)
    THEN LET c == Ch(pref, pref_idx) IN
         IF c \notin DOMAIN curr.children
         THEN <<pref_idx>>
         ELSE LET next      == curr.children[c]
                  match_len == CompleteScan(next.val, pref, pref_idx, 0)
              IN  IF match_len < Len(next.val)
                  THEN <<pref_idx>>
                  ELSE <<pref_idx>> \o CompleteWalk(next, pref, pref_idx + match_len)
    ELSE << >>

----------------------------------------------------------------------------
\* The words the trie stores: what the list traversal writes.
Stored(r) == BagToSet(_print_list(r, << >>))

\* The format arguments the driver passes to print.
Formats == {"md", "list", "tree", "json"}

\* What the bytes past the end of word may hold, per index read.
Garbage(word) == [(Len(word) + 1)..MaxLen -> GarbageChars]

\* No call is in progress: the caller has taken the last result.
Idle == [op |-> "none"]

Init ==
    /\ root \in DefaultNodes
    /\ words = {}
    /\ pure = TRUE
    /\ last = Idle

\* trie.insert(w)
Insert ==
    \E w \in Words :
        /\ last = Idle
        /\ w \in words \/ Cardinality(words) < MaxWords
        /\ root' = insert(root, w)
        /\ words' = words \cup {w}
        /\ last' = [op |-> "insert", arg |-> w, before |-> root]
        /\ UNCHANGED pure

\* trie.remove(w)
Remove ==
    \E w \in Words : \E g \in Garbage(w) :
        LET r == remove(root, w, g) IN
        /\ last = Idle
        /\ root' = r.node
        /\ words' = words \ {w}
        /\ pure' = FALSE
        /\ last' = [op |-> "remove", arg |-> w, ret |-> r.ret, oob |-> r.oob,
                    walk |-> RemoveWalk(root, w, 0, g), before |-> root]

\* trie.find(q, allow_partial)
Find ==
    \E q \in Words : \E allow_partial \in BOOLEAN :
        /\ last = Idle
        /\ root' = FindTrie(root, q, 0)
        /\ last' = [op |-> "find", arg |-> q, allow_partial |-> allow_partial,
                    found |-> find(root, q, allow_partial), before |-> root]
        /\ UNCHANGED <<words, pure>>

\* trie.complete(p, out_vec) with an empty out_vec
Complete ==
    \E p \in Words :
        /\ last = Idle
        /\ root' = CompleteTrie(root, p, 0)
        /\ last' = [op |-> "complete", arg |-> p,
                    out_vec |-> complete(root, p, EmptyBag), before |-> root]
        /\ UNCHANGED <<words, pure>>

\* trie.print(f); print and its helpers are const and reach the nodes
\* through pointers to const
PrintOp ==
    \E f \in Formats :
        /\ last = Idle
        /\ last' = [op |-> "print", format |-> f, printed |-> print(root, f),
                    before |-> root]
        /\ UNCHANGED <<root, words, pure>>

\* The call returns and the caller goes on to its next statement.
Return ==
    /\ last # Idle
    /\ last' = Idle
    /\ UNCHANGED <<root, words, pure>>

Next == Insert \/ Remove \/ Find \/ Complete \/ PrintOp \/ Return

Spec == Init /\ [][Next]_vars

----------------------------------------------------------------------------
\* What the properties speak of.

\* The nodes below and including node, each with the string spelled by the
\* labels from the root down to it.
RECURSIVE NodesFrom(_, _)
NodesFrom(node, path) ==
    {[path |-> path, node |-> node]}
      \cup UNION {NodesFrom(node.children[k], path \o node.children[k].val) :
                    k \in DOMAIN node.children}

NonRootNodes(r) ==
    UNION {NodesFrom(r.children[k], r.children[k].val) : k \in DOMAIN r.children}

\* q ends strictly inside the label of the node pn
EndsInside(q, pn) ==
    /\ IsPrefix(q, pn.path)
    /\ Len(q) < Len(pn.path)
    /\ Len(q) > Len(pn.path) - Len(pn.node.val)

\* q ends strictly inside the label of some node of the trie r
InsideLabel(r, q) == \E pn \in NonRootNodes(r) : EndsInside(q, pn)

\* A result of find that is a node marked as a word
IsWord(f) == f.present /\ f.node.is_word

\* The suffixes s, not empty, with p \o s in the set W
Completions(W, p) == {SubstrFrom(w, Len(p)) : w \in {x \in W : IsPrefix(p, x) /\ x # p}}

----------------------------------------------------------------------------
\* C1: starting from an empty trie, after any inserts (and no remove) the
\* words print("list") writes are exactly the words inserted.
C1_ListIsInserted ==
    (pure /\ last.op = "print" /\ last.format = "list")
        => BagToSet(last.printed.out) = words

\* C2: remove(w) of a word w the trie does not store returns false and
\* leaves the trie as it was.
C2_RemoveAbsentIsNoop ==
    (last.op = "remove" /\ last.arg \notin Stored(last.before))
        => (last.ret = FALSE /\ root = last.before)

\* C3: remove(w) of a stored word w returns true, and exact find(w) is then
\* absent or a node that is no word.
C3_RemoveStoredUnmarks ==
    (last.op = "remove" /\ last.arg \in Stored(last.before))
        => (last.ret = TRUE /\ ~IsWord(find(root, last.arg, FALSE)))

\* A stored word, not the empty one, was removed, other words remain and the
\* path of the removed word is gone.
C3_Witness ==
    /\ last.op = "remove" /\ last.arg \in Stored(last.before)
    /\ last.arg # << >> /\ last.ret = TRUE
    /\ Stored(root) # {}
    /\ ~find(root, last.arg, FALSE).present

\* C4: remove(w) of a stored word w removes w alone: the stored words are
\* those stored before without w, and exact find still gives a word node for
\* each of them.
C4_RemoveOnlyThatWord ==
    (last.op = "remove" /\ last.arg \in Stored(last.before))
        => /\ Stored(root) = Stored(last.before) \ {last.arg}
           /\ \A v \in Stored(last.before) \ {last.arg} : IsWord(find(root, v, FALSE))

\* A stored word was removed and the merge gave a child of the root a longer
\* label than it had.
C4_Witness ==
    /\ last.op = "remove" /\ last.arg \in Stored(last.before)
    /\ \E c \in DOMAIN root.children \cap DOMAIN last.before.children :
          Len(root.children[c].val) > Len(last.before.children[c].val)

\* C5: no node but the root is at once no word and the parent of exactly one
\* child.
C5_Compacted ==
    \A pn \in NonRootNodes(root) :
        ~(~pn.node.is_word /\ Cardinality(DOMAIN pn.node.children) = 1)

\* A remove took one of the two children of a node that is no word, and that
\* node is now a leaf.
C5_Witness ==
    /\ last.op = "remove" /\ last.ret = TRUE
    /\ \E c \in DOMAIN root.children \cap DOMAIN last.before.children :
          /\ ~last.before.children[c].is_word
          /\ Cardinality(DOMAIN last.before.children[c].children) = 2
          /\ DOMAIN root.children[c].children = {}

\* C6 as stated: after inserts alone, exact find gives a word node for every
\* inserted word, nothing for a query that is neither an inserted word nor
\* a prefix of one, and nothing for a query that ends inside a label.
C6_ExactLookup_AsStated ==
    (pure /\ last.op = "find" /\ ~last.allow_partial)
        => /\ last.arg \in words => IsWord(last.found)
           /\ (last.arg \notin words /\ ~\E w \in words : IsPrefix(last.arg, w))
                 => ~last.found.present
           /\ InsideLabel(root, last.arg) => ~last.found.present

\* C6 amended: the same, the second part for queries that are not empty
\* (find("") is the root whatever the trie holds).
C6_ExactLookup ==
    (pure /\ last.op = "find" /\ ~last.allow_partial)
        => /\ last.arg \in words => IsWord(last.found)
           /\ (last.arg # << >> /\ last.arg \notin words
               /\ ~\E w \in words : IsPrefix(last.arg, w))
                 => ~last.found.present
           /\ InsideLabel(root, last.arg) => ~last.found.present

\* After inserts alone an exact find of a query that ends inside a label
\* found nothing.
C6_Witness ==
    /\ pure /\ last.op = "find" /\ ~last.allow_partial
    /\ InsideLabel(root, last.arg)
    /\ ~last.found.present

\* C7 as stated: for a prefix p of a stored word that is itself not stored,
\* find(p, true) is a node that is no word.
C7_PartialPrefix_AsStated ==
    (last.op = "find" /\ last.allow_partial
     /\ last.arg \notin Stored(root)
     /\ \E w \in Stored(root) : IsPrefix(last.arg, w))
        => (last.found.present /\ ~last.found.node.is_word)

\* C7 amended: for such a p, find(p, true) is the node in whose label p
\* ends; it is no word when p ends at the end of that label, and when p ends
\* strictly inside the label its flag is that of the longer path.
C7_PartialPrefix ==
    (last.op = "find" /\ last.allow_partial
     /\ last.arg \notin Stored(root)
     /\ \E w \in Stored(root) : IsPrefix(last.arg, w))
        => /\ last.found.present
           /\ \E pn \in NodesFrom(root, << >>) :
                 /\ pn.node = last.found.node
                 /\ pn.path = last.arg \/ EndsInside(last.arg, pn)
                 /\ pn.path = last.arg => ~pn.node.is_word

\* A partial find of a query that ends strictly inside a label returned the
\* node of that label, which is a word.
C7_Witness ==
    /\ last.op = "find" /\ last.allow_partial
    /\ last.arg \notin Stored(root)
    /\ InsideLabel(root, last.arg)
    /\ IsWord(last.found)

\* C8: complete(p) into an empty vector gives exactly the suffixes s, not
\* empty, with p \o s inserted and not removed since.
C8_CompleteIsInserted ==
    last.op = "complete" => BagToSet(last.out_vec) = Completions(words, last.arg)

\* C9: complete(p) never gives the empty string; when p is a stored word, the
\* result is the suffixes of the longer stored words alone.
C9_NoEmptyCompletion ==
    last.op = "complete"
        => /\ << >> \notin BagToSet(last.out_vec)
           /\ last.arg \in Stored(root)
                 => BagToSet(last.out_vec) = Completions(Stored(root), last.arg)

\* complete(p) of a stored word p that other stored words extend.
C9_Witness ==
    /\ last.op = "complete"
    /\ last.arg # << >> /\ last.arg \in Stored(root)
    /\ BagToSet(last.out_vec) # {}

\* C10: insert of a word the trie stores leaves the whole trie as it was.
C10_InsertIdempotent ==
    (last.op = "insert" /\ last.arg \in Stored(last.before))
        => root = last.before

\* A stored word, not the empty one, was inserted again into a trie of
\* at least two words.
C10_Witness ==
    /\ last.op = "insert" /\ last.arg \in Stored(last.before)
    /\ last.arg # << >>
    /\ Cardinality(Stored(last.before)) >= 2

\* The longest chain of nodes from r down to a leaf
RECURSIVE Height(_)
Height(r) ==
    IF DOMAIN r.children = {}
    THEN 1
    ELSE 1 + (CHOOSE h \in {Height(r.children[k]) : k \in DOMAIN r.children} :
                \A k \in DOMAIN r.children : Height(r.children[k]) <= h)

\* Each index of the walk s is past the one before
Advances(s) == \A i \in 1..(Len(s) - 1) : s[i] < s[i + 1]

\* C11: in every node, each key of the child map is the first character of
\* the label of the child it maps to.
C11_KeyIsFirstChar ==
    \A pn \in NodesFrom(root, << >>) :
        \A k \in DOMAIN pn.node.children :
            /\ Len(pn.node.children[k].val) > 0
            /\ Ch(pn.node.children[k].val, 0) = k

\* An insert split a child of the root: the child under the same key now has
\* a shorter label and the old node below it.
C11_Witness ==
    /\ last.op = "insert"
    /\ \E c \in DOMAIN root.children \cap DOMAIN last.before.children :
          /\ Len(root.children[c].val) < Len(last.before.children[c].val)
          /\ DOMAIN root.children[c].children # {}

\* C12: every node but the root has a label of at least one character, and
\* the label of the root is empty.
C12_LabelsNotEmpty ==
    /\ root.val = << >>
    /\ \A pn \in NonRootNodes(root) : Len(pn.node.val) >= 1

\* An insert split a leaf on a mismatch: where the leaf was there is a common
\* node with the relabeled node and a new leaf below it.
C12_Witness ==
    /\ last.op = "insert"
    /\ \E c \in DOMAIN root.children \cap DOMAIN last.before.children :
          /\ DOMAIN last.before.children[c].children = {}
          /\ Cardinality(DOMAIN root.children[c].children) = 2

\* C13: find with either value of allow_partial, complete and print leave the
\* trie as it was before the call.
C13_ReadsDoNotMutate ==
    last.op \in {"find", "complete", "print"} => root = last.before

\* A find for a query whose first character no child of the root has, in a
\* trie that has children.
C13_Witness ==
    /\ last.op = "find"
    /\ last.arg # << >>
    /\ DOMAIN last.before.children # {}
    /\ Ch(last.arg, 0) \notin DOMAIN last.before.children
    /\ ~last.found.present

C15_EveryCallAdvances ==
    /\ last.op = "insert" =>
          LET s == InsertWalk(last.before, last.arg, 0) IN
          Advances(s) /\ \A i \in DOMAIN s : s[i] < Len(last.arg)
    /\ last.op = "find" =>
          LET s == FindWalk(last.before, last.arg, 0) IN
          Advances(s) /\ \A i \in DOMAIN s : s[i] < Len(last.arg)
    /\ last.op = "complete" =>
          LET s == CompleteWalk(last.before, last.arg, 0) IN
          Advances(s) /\ \A i \in DOMAIN s : s[i] < Len(last.arg)
    /\ last.op = "remove" =>
          /\ Advances(last.walk)
          /\ Len(last.walk) <= Height(last.before)
          /\ ~last.oob => Len(last.walk) <= Len(last.arg) + 1

\* A remove went down two nodes, reading a character of the word at each.
C15_Witness ==
    /\ last.op = "remove" /\ ~last.oob
    /\ Len(last.walk) = 3

\* C16: insert("") makes the root a word and changes nothing else; after it
\* find("") gives the root, marked as a word, and the list has the empty
\* word.
C16_InsertEmpty ==
    (last.op = "insert" /\ last.arg = << >>) =>
        /\ root = [last.before EXCEPT !.is_word = TRUE]
        /\ find(root, << >>, FALSE) = Present(root)
        /\ root.is_word
        /\ BagIn(<< >>, print(root, "list").out)

\* insert("") on a trie that has nodes below the root and whose root was no
\* word.
C16_Witness ==
    /\ last.op = "insert" /\ last.arg = << >>
    /\ ~last.before.is_word
    /\ DOMAIN last.before.children # {}

\* C17: every node but the root that has no children is a word.
C17_NoDeadLeaves ==
    \A pn \in NonRootNodes(root) :
        DOMAIN pn.node.children = {} => pn.node.is_word

\* A remove returned true and a child of the root is gone.
C17_Witness ==
    /\ last.op = "remove" /\ last.ret
    /\ DOMAIN last.before.children \ DOMAIN root.children # {}

\* C18: a remove that returns false leaves the trie as it was before the call.
C18_RemoveAllOrNothing ==
    (last.op = "remove" /\ ~last.ret) => root = last.before

\* A remove returned false for a word the trie has a path for.
C18_Witness ==
    /\ last.op = "remove" /\ ~last.ret
    /\ last.arg # << >>
    /\ find(last.before, last.arg, TRUE).present

\* C19: in remove(w), word_idx is never past the length of w, and w is never
\* read past its end.
C19_IndexWithinWord ==
    last.op = "remove" =>
        /\ \A i \in DOMAIN last.walk : last.walk[i] <= Len(last.arg)
        /\ ~last.oob

\* C20: for a query q that is not empty, find(q, true) gives a node exactly
\* when q is a prefix of, or equal to, a word the trie holds.
C20_PartialIffPrefix ==
    (last.op = "find" /\ last.allow_partial /\ last.arg # << >>) =>
        (last.found.present <=> \E w \in Stored(root) : IsPrefix(last.arg, w))

\* After a remove, a partial find gave a node for a query that is a prefix
\* of a word held and is no word held itself.
C20_Witness ==
    /\ last.op = "find" /\ last.allow_partial /\ last.arg # << >>
    /\ ~pure
    /\ last.found.present
    /\ last.arg \notin Stored(root)
=============================================================================
